---- MODULE Spec2Model ----
(* Credential hashing and the register / login workflow of src/main.py,     *)
(* as a state machine over the "user" collection of the document store.     *)
EXTENDS Integers, Sequences, FiniteSets, TLC

VARIABLES
    db,        \* the module-level store handle: TRUE = a Database, FALSE = None
    users,     \* the "user" collection, in insertion order
    req,       \* the HTTP requests: payload, position, locals, response
    issued,    \* number of session tokens drawn from secrets.token_urlsafe so far
    hashed,    \* the last two outputs of hash_password (hasher harness)
    stored,    \* the stored string handed to verify_password (hasher harness)
    attempt,   \* the password handed to verify_password (hasher harness)
    result     \* what verify_password gave: "True", "False", "TypeError"; "None" before a call

vars == <<db, users, req, issued, hashed, stored, attempt, result>>

authVars == <<db, users, req, issued>>
hashVars == <<hashed, stored, attempt, result>>

\* ---------------------------------------------------------------- bounds
NReq == 3            \* number of HTTP requests in a run
SaltLen == 1         \* hex characters of a drawn salt (32 in the program)
MaxStoredLen == 3    \* longest arbitrary stored string handed to verify_password

\* ---------------------------------------------------------------- strings
\* A string is a sequence of characters; a character is one of these atoms.
NonAscii == "U+00E9"
HexChars == {"0", "1"}
AsciiChars == HexChars \cup {"$"}
Chars == AsciiChars \cup {NonAscii}

Passwords == <<"p1", "p2">>
Names == <<"n1", "n2">>
Emails == <<"e1", "e2">>
Range(f) == {f[i] : i \in DOMAIN f}

RECURSIVE StringsOfLen(_, _)
StringsOfLen(S, n) ==
    IF n = 0 THEN {<<>>}
    ELSE {Append(s, c) : s \in StringsOfLen(S, n - 1), c \in S}

StringsUpTo(S, n) == UNION {StringsOfLen(S, k) : k \in 0..n}

Min(S) == CHOOSE x \in S : \A y \in S : x <= y

\* str.split(sep): the parts between every occurrence of sep (n seps give n+1 parts).
RECURSIVE split(_, _)
split(s, sep) ==
    LET at == {i \in DOMAIN s : s[i] = sep} IN
    IF at = {} THEN <<s>>
    ELSE LET i == Min(at) IN
         <<SubSeq(s, 1, i - 1)>> \o split(SubSeq(s, i + 1, Len(s)), sep)

\* hmac.compare_digest on str arguments accepts ASCII only.
IsAscii(s) == \A i \in DOMAIN s : s[i] \in AsciiChars

\* ---------------------------------------------------------------- hasher
\* hashlib.pbkdf2_hmac('sha256', password, salt, 100_000).hex(): a hex string that
\* is a collision-free function of (password, salt).  Each salt character becomes
\* two hex characters and the password one, so the encoding is injective.
PwdHex(password) == IF password = "p1" THEN "0" ELSE "1"

CharHex(c) ==
    CASE c = "0" -> <<"0", "1">>
      [] c = "1" -> <<"1", "0">>
      [] c = "$" -> <<"0", "0">>
      [] OTHER   -> <<"1", "1">>

RECURSIVE SaltHex(_)
SaltHex(salt) ==
    IF salt = <<>> THEN <<>> ELSE CharHex(Head(salt)) \o SaltHex(Tail(salt))

pbkdf2_hmac(password, salt) == <<PwdHex(password)>> \o SaltHex(salt)

\* secrets.token_hex(16): the salts a call can draw.
Salts == StringsOfLen(HexChars, SaltLen)

\* A hasher that leaves the salt out of the derivation.
hash_password_unsalted(password, salt) ==
    salt \o <<"$">> \o pbkdf2_hmac(password, <<>>)

hash_password(password, salt) ==
    salt \o <<"$">> \o pbkdf2_hmac(password, salt)

\* secrets.compare_digest(test, pwd_hash)
compare_digest(a, b) ==
    IF ~(IsAscii(a) /\ IsAscii(b)) THEN "TypeError"
    ELSE IF a = b THEN "True" ELSE "False"

verify_password(password, st) ==
    LET parts == split(st, "$") IN
    IF Len(parts) # 2 THEN "False"
    ELSE compare_digest(pbkdf2_hmac(password, parts[1]), parts[2])

\* ---------------------------------------------------------------- hasher harness
\* Calls of the two pure functions on inputs drawn from bounded sets.
HashPassword(password) ==
    \E salt \in Salts :
        LET out == [password |-> password, salt |-> salt,
                    stored |-> hash_password(password, salt)] IN
        /\ hashed' = IF hashed = <<>> THEN <<out>> ELSE <<hashed[Len(hashed)], out>>
        /\ stored' = out.stored
        /\ result' = "None"
        /\ UNCHANGED <<attempt, authVars>>

\* An arbitrary stored string, not made by hash_password.
ChooseStored(s) ==
    /\ stored' = s
    /\ hashed' = <<>>
    /\ result' = "None"
    /\ UNCHANGED <<attempt, authVars>>

VerifyPassword(password) ==
    /\ attempt' = password
    /\ result' = verify_password(password, stored)
    /\ UNCHANGED <<hashed, stored, authVars>>

\* ---------------------------------------------------------------- responses
HTTPException(status, detail) ==
    [status |-> status, detail |-> detail, token |-> 0, name |-> "", email |-> ""]

AuthResponse(token, name, email) ==
    [status |-> 200, detail |-> "", token |-> token, name |-> name, email |-> email]

NoResponse == HTTPException(0, "")

\* An exception that is not an HTTPException leaves the handler: a generic server error.
ServerError == HTTPException(500, "Internal Server Error")

DuplicateEmail == HTTPException(400, "Email already registered")

LoginUnknownEmail == HTTPException(401, "Invalid credentials")

\* A login that tells the caller which of the two checks failed.
LoginWrongPassword_Distinct == HTTPException(403, "Wrong password")

LoginWrongPassword == HTTPException(401, "Invalid credentials")

\* ---------------------------------------------------------------- store
\* A found document is <<doc>>, None is <<>>.
find_one_email(coll, email) ==
    LET at == {i \in DOMAIN coll : coll[i].email = email} IN
    IF at = {} THEN <<>> ELSE <<coll[Min(at)]>>

find_one_id(coll, id) ==
    LET at == {i \in DOMAIN coll : coll[i].id = id} IN
    IF at = {} THEN <<>> ELSE <<coll[Min(at)]>>

\* An update that overwrites the list instead of pushing onto it.
update_one_set(coll, id, token) ==
    LET at == {i \in DOMAIN coll : coll[i].id = id} IN
    IF at = {} THEN coll
    ELSE [coll EXCEPT ![Min(at)].session_tokens = <<token>>]

\* update_one({"_id": id}, {"$push": {"session_tokens": token}})
update_one_push(coll, id, token) ==
    LET at == {i \in DOMAIN coll : coll[i].id = id} IN
    IF at = {} THEN coll
    ELSE [coll EXCEPT ![Min(at)].session_tokens = Append(@, token)]

\* UserSchema(name, email, password_hash): the document has no session_tokens yet.
UserSchema(name, email, password_hash) ==
    [id |-> 0, name |-> name, email |-> email, password_hash |-> password_hash,
     session_tokens |-> <<>>]

\* create_document(collection, doc) with a store handle: insert, return the new id.
create_document(coll, doc) == Append(coll, [doc EXCEPT !.id = Len(coll) + 1])

\* secrets.token_urlsafe(32): unique with overwhelming probability, so a fresh value.
token_urlsafe(n) == n + 1

\* ---------------------------------------------------------------- requests
Requests == 1..NReq

Idle == [op |-> "none", name |-> "", email |-> "", password |-> "", pc |-> "idle",
         doc |-> <<>>, oid |-> 0, user_id |-> 0, token |-> 0, resp |-> NoResponse,
         after |-> {}, writes |-> 0]

Reply(r, resp) == [req EXCEPT ![r].pc = "done", ![r].resp = resp]

\* Register requests that have already returned successfully.
Registered == {g \in Requests : req[g].op = "register" /\ req[g].pc = "done"
                                /\ req[g].resp.status = 200}

\* The values a new request may carry.  Emails, names and passwords are
\* interchangeable, so a request uses a value already seen or the first unseen one.
Started == {g \in Requests : req[g].pc # "idle"}

Fresh(order, used) ==
    {order[i] : i \in {j \in DOMAIN order : \A k \in 1..(j - 1) : order[k] \in used}}

\* A request arrives.  after remembers which registrations had returned by then.
Start(r) ==
    /\ req[r].pc = "idle"
    /\ IF r = 1 THEN TRUE ELSE req[r - 1].pc # "idle"
    /\ \E op \in {"register", "login"},
          email \in Fresh(Emails, {req[g].email : g \in Started}),
          password \in Fresh(Passwords, {req[g].password : g \in Started}) :
       \E name \in IF op = "register"
                   THEN Fresh(Names, {req[g].name : g \in Started})
                   ELSE {""} :
          req' = [req EXCEPT ![r] = [Idle EXCEPT !.op = op, !.name = name,
                                        !.email = email, !.password = password,
                                        !.pc = "find", !.after = Registered]]
    /\ UNCHANGED <<db, users, issued, hashVars>>

\* register, lines 122-124, with the duplicate check left out.
RegisterFind_NoCheck(r) ==
    /\ req[r].op = "register" /\ req[r].pc = "find"
    /\ req' = [req EXCEPT ![r].pc = "create"]
    /\ UNCHANGED <<db, users, issued, hashVars>>

\* register, lines 122-124
RegisterFind(r) ==
    /\ req[r].op = "register" /\ req[r].pc = "find"
    /\ LET existing == IF db THEN find_one_email(users, req[r].email) ELSE <<>> IN
       req' = IF existing # <<>> THEN Reply(r, DuplicateEmail)
              ELSE [req EXCEPT ![r].pc = "create"]
    /\ UNCHANGED <<db, users, issued, hashVars>>

\* register, lines 126-128; create_document without a store handle raises.
RegisterCreate(r) ==
    /\ req[r].op = "register" /\ req[r].pc = "create"
    /\ \E salt \in Salts :
        LET password_hash == hash_password(req[r].password, salt)
            doc == UserSchema(req[r].name, req[r].email, password_hash) IN
        IF ~db
        THEN /\ req' = Reply(r, ServerError)
             /\ users' = users
        ELSE /\ users' = create_document(users, doc)
             /\ req' = [req EXCEPT ![r].pc = "attach_email",
                                   ![r].user_id = Len(users) + 1,
                                   ![r].writes = @ + 1]
    /\ UNCHANGED <<db, issued, hashVars>>

\* register, lines 130-131: the token, then the innermost find_one({"email": ...})["_id"];
\* subscripting None raises TypeError.
RegisterAttachEmail(r) ==
    /\ req[r].op = "register" /\ req[r].pc = "attach_email"
    /\ issued' = token_urlsafe(issued)
    /\ LET doc == find_one_email(users, req[r].email) IN
       req' = IF doc = <<>> THEN [Reply(r, ServerError) EXCEPT ![r].token = issued']
              ELSE [req EXCEPT ![r].pc = "attach_id", ![r].oid = doc[1].id,
                               ![r].token = issued']
    /\ UNCHANGED <<db, users, hashVars>>

\* register, line 131: the middle find_one({"_id": ...})["_id"]
RegisterAttachId(r) ==
    /\ req[r].op = "register" /\ req[r].pc = "attach_id"
    /\ LET doc == find_one_id(users, req[r].oid) IN
       req' = IF doc = <<>> THEN Reply(r, ServerError)
              ELSE [req EXCEPT ![r].pc = "attach_push", ![r].oid = doc[1].id]
    /\ UNCHANGED <<db, users, issued, hashVars>>

\* register, lines 131-132: update_one(... $push ...) and the response
RegisterAttachPush(r) ==
    /\ req[r].op = "register" /\ req[r].pc = "attach_push"
    /\ users' = update_one_push(users, req[r].oid, req[r].token)
    /\ req' = [Reply(r, AuthResponse(req[r].token, req[r].name, req[r].email))
                  EXCEPT ![r].writes = @ + 1]
    /\ UNCHANGED <<db, issued, hashVars>>

\* login, lines 136-140
LoginFind(r) ==
    /\ req[r].op = "login" /\ req[r].pc = "find"
    /\ LET user == IF db THEN find_one_email(users, req[r].email) ELSE <<>>
           ok == verify_password(req[r].password, user[1].password_hash) IN
       req' = IF user = <<>> THEN Reply(r, LoginUnknownEmail)
              ELSE IF ok = "False" THEN [Reply(r, LoginWrongPassword) EXCEPT ![r].doc = user]
              ELSE IF ok = "TypeError" THEN [Reply(r, ServerError) EXCEPT ![r].doc = user]
              ELSE [req EXCEPT ![r].pc = "push", ![r].doc = user]
    /\ UNCHANGED <<db, users, issued, hashVars>>

\* login, lines 141-143
LoginPush(r) ==
    /\ req[r].op = "login" /\ req[r].pc = "push"
    /\ issued' = token_urlsafe(issued)
    /\ users' = update_one_push(users, req[r].doc[1].id, issued')
    /\ req' = [Reply(r, AuthResponse(issued', req[r].doc[1].name, req[r].doc[1].email))
                  EXCEPT ![r].token = issued', ![r].writes = @ + 1]
    /\ UNCHANGED <<db, hashVars>>

\* A store call of request r raises (connection lost, server error): nothing is written.
StoreCalls == {"find", "create", "attach_email", "attach_id", "attach_push", "push"}

StoreFault(r) ==
    /\ db
    /\ req[r].pc \in StoreCalls
    /\ req' = Reply(r, ServerError)
    /\ UNCHANGED <<db, users, issued, hashVars>>

\* ---------------------------------------------------------------- specifications
HashIdle ==
    /\ hashed = <<>>
    /\ stored = <<>>
    /\ attempt = ""
    /\ result = "None"

AuthIdle ==
    /\ users = <<>>
    /\ req = [r \in Requests |-> Idle]
    /\ issued = 0

\* The process starts with or without a store handle; the collection starts empty.
Init ==
    /\ db \in BOOLEAN
    /\ AuthIdle
    /\ HashIdle

Next ==
    \/ \E r \in Requests : Start(r)
    \/ \E r \in Requests : RegisterFind(r)
    \/ \E r \in Requests : RegisterCreate(r)
    \/ \E r \in Requests : RegisterAttachEmail(r)
    \/ \E r \in Requests : RegisterAttachId(r)
    \/ \E r \in Requests : RegisterAttachPush(r)
    \/ \E r \in Requests : LoginFind(r)
    \/ \E r \in Requests : LoginPush(r)

Spec == Init /\ [][Next]_vars

\* The same program over a store whose calls can fail.
NextFault ==
    \/ Next
    \/ \E r \in Requests : StoreFault(r)

SpecFault == Init /\ [][NextFault]_vars

\* The two pure functions on bounded inputs.
InitHash ==
    /\ db = FALSE
    /\ AuthIdle
    /\ hashed = <<>>
    /\ stored \in StringsUpTo(Chars, MaxStoredLen)
    /\ attempt = ""
    /\ result = "None"

NextHash ==
    \/ \E password \in Range(Passwords) : HashPassword(password)
    \/ \E s \in StringsUpTo(Chars, MaxStoredLen) : ChooseStored(s)
    \/ \E password \in Range(Passwords) : VerifyPassword(password)

SpecHash == InitHash /\ [][NextHash]_vars

\* ---------------------------------------------------------------- claims
IsPrefix(a, b) == Len(a) <= Len(b) /\ SubSeq(b, 1, Len(a)) = a

Done(r) == req[r].pc = "done"

InvalidCredentials ==
    [status |-> 401, detail |-> "Invalid credentials", token |-> 0, name |-> "", email |-> ""]

\* C1: a Register whose lookup runs while an Account with its email is in the store
\* ends at once with 400 "Email already registered"; that step inserts nothing,
\* issues no token and leaves every Account, token lists included, as it was.
C1_DuplicateRegisterRejected ==
    [][\A r \in Requests :
        ( /\ req[r].op = "register" /\ req[r].pc = "find"
          /\ req'[r] # req[r]
          /\ \E i \in DOMAIN users : users[i].email = req[r].email )
        => ( /\ req'[r].pc = "done"
             /\ req'[r].resp = [status |-> 400, detail |-> "Email already registered",
                                token |-> 0, name |-> "", email |-> ""]
             /\ req'[r].writes = 0
             /\ users' = users
             /\ issued' = issued )]_vars

C1_Witness ==
    \E r \in Requests :
        /\ req[r].op = "register" /\ Done(r) /\ req[r].resp.status = 400
        /\ \E i \in DOMAIN users :
              users[i].email = req[r].email /\ users[i].session_tokens # <<>>

\* C2: every Login that ends without success, unknown email or wrong password alike,
\* answers the one InvalidCredentials response (401, "Invalid credentials"), and the
\* step that fails issues no token and changes no Account.
C2_FailedLoginUniform ==
    [][\A r \in Requests :
        ( /\ req[r].op = "login" /\ req[r].pc # "done"
          /\ req'[r].pc = "done" /\ req'[r].resp.status # 200 )
        => ( /\ req'[r].resp = InvalidCredentials
             /\ req'[r].token = 0
             /\ req'[r].writes = 0
             /\ users' = users
             /\ issued' = issued )]_vars

C2_Witness ==
    /\ db
    /\ \E a, b \in Requests :
        /\ req[a].op = "login" /\ Done(a) /\ req[a].resp.status = 401 /\ req[a].doc = <<>>
        /\ req[b].op = "login" /\ Done(b) /\ req[b].resp.status = 401 /\ req[b].doc # <<>>

\* C3: no two Accounts in the store have the same email.
C3_EmailUnique ==
    \A i, j \in DOMAIN users : users[i].email = users[j].email => i = j

\* C4: a Login that starts after a Register of the same email has returned
\* successfully succeeds with that Register's name and email and a token no other
\* request got when the passwords are equal, and answers InvalidCredentials when
\* they differ.
C4_LoginAfterRegister ==
    \A l \in Requests :
        (req[l].op = "login" /\ Done(l)) =>
            \A g \in req[l].after :
                req[g].email = req[l].email =>
                    IF req[g].password = req[l].password
                    THEN /\ req[l].resp.status = 200
                         /\ req[l].resp.name = req[g].name
                         /\ req[l].resp.email = req[g].email
                         /\ \A h \in Requests \ {l} : req[h].token # req[l].resp.token
                    ELSE req[l].resp = InvalidCredentials

\* C5: in every step each Account stays in the store with its token list extended
\* at the end only, and a Login that succeeds appends exactly its one token to
\* one Account and changes nothing else.
C5_TokensAppendOnly ==
    [][ /\ \A i \in DOMAIN users :
              /\ i \in DOMAIN users'
              /\ users'[i].id = users[i].id
              /\ IsPrefix(users[i].session_tokens, users'[i].session_tokens)
        /\ \A r \in Requests :
              ( /\ req[r].op = "login" /\ req[r].pc # "done"
                /\ req'[r].pc = "done" /\ req'[r].resp.status = 200 )
              => \E i \in DOMAIN users :
                    users' = [users EXCEPT ![i].session_tokens =
                                  Append(@, req'[r].resp.token)] ]_vars

C5_Witness ==
    \E i \in DOMAIN users, r \in Requests :
        /\ req[r].op = "login" /\ Done(r) /\ req[r].resp.status = 200
        /\ Len(users[i].session_tokens) >= 2
        /\ users[i].session_tokens[Len(users[i].session_tokens)] = req[r].resp.token

\* C6: a string made by hash_password(P) verifies against P and against no other
\* password; two such strings for one password made with different salts differ,
\* and each verifies against P.
C6_HashVerifyRoundTrip ==
    /\ \A i \in DOMAIN hashed :
          /\ verify_password(hashed[i].password, hashed[i].stored) = "True"
          /\ \A q \in Range(Passwords) \ {hashed[i].password} :
                verify_password(q, hashed[i].stored) = "False"
    /\ \A i, j \in DOMAIN hashed :
          (hashed[i].password = hashed[j].password /\ hashed[i].salt # hashed[j].salt)
          => hashed[i].stored # hashed[j].stored
    /\ (hashed # <<>> /\ result # "None") =>
          /\ stored = hashed[Len(hashed)].stored
          /\ result = IF attempt = hashed[Len(hashed)].password THEN "True" ELSE "False"

C6_Witness ==
    /\ Len(hashed) = 2
    /\ hashed[1].password = hashed[2].password
    /\ hashed[1].salt # hashed[2].salt
    /\ attempt = hashed[2].password
    /\ result = "True"

\* C7: verify_password never raises: it gives a boolean for every stored string,
\* and False whenever the string is not of the two-part salt$hash form.
C7_VerifyNeverRaises ==
    result # "None" =>
        /\ result \in {"True", "False"}
        /\ Len(split(stored, "$")) # 2 => result = "False"

\* C8: without a store handle every request ends in a generic server error: no
\* Login answers 401, and no Register passes the duplicate-email check.
C8_NoHandleIsServerError ==
    ~db => \A r \in Requests :
              /\ Done(r) => req[r].resp.status = 500
              /\ ~(req[r].op = "register" /\ req[r].pc = "create")

\* C9: the token a successful Register returns is in the token list of the Account
\* that Register inserted, and in no other Account's list.
C9_TokenOnOwnAccount ==
    \A r \in Requests :
        (req[r].op = "register" /\ Done(r) /\ req[r].resp.status = 200) =>
            \A i \in DOMAIN users :
                (\E k \in DOMAIN users[i].session_tokens :
                    users[i].session_tokens[k] = req[r].resp.token)
                <=> users[i].id = req[r].user_id

\* C10: a request has at most one persistent write step, a request that ended in
\* an error has created no Account, and when no request is in flight no Account
\* has an empty token list.
C10_NoPartialState ==
    /\ \A r \in Requests : req[r].writes <= 1
    /\ \A r \in Requests : (Done(r) /\ req[r].resp.status # 200) => req[r].user_id = 0
    /\ (\A r \in Requests : req[r].pc \in {"idle", "done"}) =>
          \A i \in DOMAIN users : users[i].session_tokens # <<>>

====
